---- MODULE Spec2Model ----
(***************************************************************************)
(* Model of the CloudFormation stack deployment orchestrator of the AWS    *)
(* CDK toolkit: deployStack, makeBodyParameter, getStackOutputs and        *)
(* destroyStack, running against a CloudFormation control plane that holds *)
(* one stack (the one named deployName) and the change sets created for it.*)
(* Every await of the source is one step of an invocation; the control     *)
(* plane moves stacks and change sets to their terminal states in between. *)
(***************************************************************************)
EXTENDS Integers, Sequences, FiniteSets, TLC

\* ---------------------------------------------------------------- bounds
\* invocations of deployStack / destroyStack made in one behaviour
MaxRuns == 2
\* the serialized templates are LimitBytes .. LimitBytes + MaxOver bytes long
MaxOver == 1
\* largest number of changes the control plane reports for a change set
MaxChanges == 1

\* ------------------------------------------------------ program constants
LARGE_TEMPLATE_SIZE_KB == 50

LimitBytes == LARGE_TEMPLATE_SIZE_KB * 1024

\* ----------------------------------------------------------------- inputs
Procs == {1}

RunIds == 1 .. MaxRuns

\* a template document is represented by the length of its YAML dump
Templates == LimitBytes .. (LimitBytes + MaxOver)

\* the value of an optional field that is not set
Undefined == 0

\* ------------------------------------------------- control plane statuses
Absent == "ABSENT"

InProgressStatuses == {"CREATE_IN_PROGRESS", "UPDATE_IN_PROGRESS", "DELETE_IN_PROGRESS"}

FailureStatuses == {"CREATE_FAILED", "ROLLBACK_COMPLETE", "UPDATE_ROLLBACK_COMPLETE", "DELETE_FAILED"}

SuccessStatuses == {"CREATE_COMPLETE", "UPDATE_COMPLETE"}

CreationFailureStatuses == {"CREATE_FAILED", "ROLLBACK_COMPLETE"}

TerminalStatuses == FailureStatuses \cup SuccessStatuses \cup {"DELETE_COMPLETE"}

\* what an operation in progress can end in
SettledStatuses(s) ==
  CASE s = "CREATE_IN_PROGRESS" -> {"CREATE_COMPLETE", "ROLLBACK_COMPLETE", "CREATE_FAILED"}
    [] s = "UPDATE_IN_PROGRESS" -> {"UPDATE_COMPLETE", "UPDATE_ROLLBACK_COMPLETE"}
    [] s = "DELETE_IN_PROGRESS" -> {"DELETE_COMPLETE", "DELETE_FAILED"}
    [] OTHER -> {}

NoChangeSet == [status |-> "NONE", type |-> "NONE", template |-> Undefined, changes |-> 0]

VARIABLES
  stack,       \* the stack named deployName in the control plane
  changeSets,  \* change set name (execution id) -> change set of that stack
  bucket,      \* templates stored in the toolkit bucket
  monitors,    \* run ids whose activity monitor is running
  nextRun,     \* next run id, also the source of fresh execution ids
  inv          \* the invocation each caller is running

vars == <<stack, changeSets, bucket, monitors, nextRun, inv>>

\* ------------------------------------------------------------ invocations
NoDescription == [defined |-> FALSE, hasChanges |-> FALSE, n |-> 0]

NoBody == [throws |-> FALSE, TemplateBody |-> Undefined, TemplateURL |-> Undefined]

NoRequest == [ChangeSetName |-> Undefined, ChangeSetType |-> "NONE",
              TemplateBody |-> Undefined, TemplateURL |-> Undefined]

NoOutcome == [kind |-> "none", err |-> "none", status |-> "none", noOp |-> FALSE, outputs |-> Undefined]

NoStack == [status |-> "ABSENT", template |-> Undefined, pending |-> Undefined]

Idle == [pc |-> "idle", op |-> "none", env |-> FALSE, toolkit |-> FALSE, quiet |-> FALSE,
         template |-> Undefined, run |-> 0, executionId |-> Undefined,
         bodyParameter |-> NoBody, update |-> FALSE, existedAtCheck |-> FALSE,
         failedCreating |-> FALSE, deletedStack |-> "none", request |-> NoRequest,
         changeSetDescription |-> NoDescription, monitor |-> FALSE,
         described |-> FALSE, checked |-> FALSE, waited |-> "none", afterDestroy |-> FALSE,
         stackAtStart |-> NoStack, outcome |-> NoOutcome, calls |-> <<>>]

Call(c, a) == [call |-> c, arg |-> a]

\* the invocation r after it issued call c with argument a
Logged(r, c, a) == [r EXCEPT !.calls = Append(@, Call(c, a))]

\* a poll repeats the same call until it sees what it waits for: the
\* repetitions are recorded as one entry
LoggedPoll(r, c, a) ==
  IF Len(r.calls) > 0 /\ r.calls[Len(r.calls)] = Call(c, a) THEN r ELSE Logged(r, c, a)

\* the invocation r after it raised err
Thrown(r, err, st) ==
  [r EXCEPT !.pc = "done",
            !.outcome = [kind |-> "error", err |-> err, status |-> st, noOp |-> FALSE, outputs |-> Undefined]]

\* the invocation r after it returned
Returned(r, noOp, outputs) ==
  [r EXCEPT !.pc = "done",
            !.outcome = [kind |-> "returned", err |-> "none", status |-> "none", noOp |-> noOp, outputs |-> outputs]]

\* variant: the error of the call is swallowed and the call is made again
Failed_Swallowed(r) == r

\* the invocation r after the call it issued last failed: the error of the
\* call is the error of the invocation
Failed(r) == Thrown(r, "RemoteError", r.calls[Len(r.calls)].call)

At(r, label) == [r EXCEPT !.pc = label]

\* --------------------------------------------------------- util/cloudformation
\* describeStack: the description of the stack, undefined if it does not exist
describeStack == IF stack.status = Absent THEN "undefined" ELSE stack.status

stackExists == describeStack # "undefined"

stackFailedCreating == describeStack # "undefined" /\ describeStack \in CreationFailureStatuses

\* one iteration of waitForStack on the observed description d:
\* "poll" (look again), "throw", or "return" of d (which may be undefined)
waitForStack(d, failOnDeletedStack) ==
  IF d = "undefined" THEN (IF failOnDeletedStack THEN "throw" ELSE "return")
  ELSE IF d \in InProgressStatuses THEN "poll"
  ELSE IF failOnDeletedStack /\ (d \in FailureStatuses \/ d = "DELETE_COMPLETE") THEN "throw"
  ELSE "return"

\* the outputs of the stack: those its deployed template declares
Outputs == IF stack.status = Absent THEN Undefined ELSE stack.template

getStackOutputs == IF describeStack # "undefined" THEN Outputs ELSE Undefined

\* the three shapes of a description the orchestrator takes for "no changes"
EmptyDescriptions ==
  { NoDescription,
    [defined |-> TRUE, hasChanges |-> FALSE, n |-> 0],
    [defined |-> TRUE, hasChanges |-> TRUE, n |-> 0] }

\* the descriptions waitForChangeSet can return for change set cs
ChangeSetDescriptions(cs) ==
  IF cs.changes = 0 THEN EmptyDescriptions
  ELSE {[defined |-> TRUE, hasChanges |-> TRUE, n |-> cs.changes]}

\* ------------------------------------------------------------- deployStack
\* the key uploadIfChanged stores content under is a function of the content
UploadKey(t) == t

\* variant: a template of exactly the threshold is refused too
makeBodyParameter_AtLeast(len, toolkitInfo) ==
  IF toolkitInfo
    THEN [throws |-> FALSE, TemplateBody |-> Undefined, TemplateURL |-> UploadKey(len)]
  ELSE IF len >= LARGE_TEMPLATE_SIZE_KB * 1024
    THEN [throws |-> TRUE, TemplateBody |-> Undefined, TemplateURL |-> Undefined]
  ELSE [throws |-> FALSE, TemplateBody |-> len, TemplateURL |-> Undefined]

\* variant: the size is looked at first, the bucket is used for large templates only
makeBodyParameter_SizeFirst(len, toolkitInfo) ==
  IF len > LARGE_TEMPLATE_SIZE_KB * 1024
    THEN (IF toolkitInfo
            THEN [throws |-> FALSE, TemplateBody |-> Undefined, TemplateURL |-> UploadKey(len)]
            ELSE [throws |-> TRUE, TemplateBody |-> Undefined, TemplateURL |-> Undefined])
  ELSE [throws |-> FALSE, TemplateBody |-> len, TemplateURL |-> Undefined]

\* makeBodyParameter: the body parameter of createChangeSet for a template
\* whose YAML dump is len characters long; throws when it cannot be passed
makeBodyParameter(len, toolkitInfo) ==
  IF toolkitInfo
    THEN [throws |-> FALSE, TemplateBody |-> Undefined, TemplateURL |-> UploadKey(len)]
  ELSE IF len > LARGE_TEMPLATE_SIZE_KB * 1024
    THEN [throws |-> TRUE, TemplateBody |-> Undefined, TemplateURL |-> Undefined]
  ELSE [throws |-> FALSE, TemplateBody |-> len, TemplateURL |-> Undefined]

\* variant: the two types are swapped
ChangeSetType_Swapped(update) == IF update THEN "CREATE" ELSE "UPDATE"

\* line 67
ChangeSetType(update) == IF update THEN "UPDATE" ELSE "CREATE"

\* variant: every change set is taken for one without changes
IsNoOp_Always(d) == TRUE

\* variant: only a missing description counts as no changes
IsNoOp_OnlyUndefined(d) == ~d.defined

\* variant: an empty change list does not count as no changes
IsNoOp_IgnoresEmptyList(d) == ~d.defined \/ ~d.hasChanges

\* line 77
IsNoOp(d) == ~d.defined \/ ~d.hasChanges \/ d.n = 0

\* variant: the environment is not looked at
MissingEnvironment_Never(environment) == FALSE

\* lines 38 and 147
MissingEnvironment(environment) == ~environment

\* variant: the monitor is never started
MonitorWanted_Never(quiet) == FALSE

\* lines 86 and 156
MonitorWanted(quiet) == ~quiet

\* variant: the stack is deleted whether it exists or not
DestroyReturnsEarly_Never(exists) == FALSE

\* line 153
DestroyReturnsEarly(exists) == ~exists

\* line 55
CleanupFailed(deletedStack) == deletedStack # "undefined" /\ deletedStack # "DELETE_COMPLETE"

\* the caller's previous invocation was a destroyStack that returned
AfterDestroy(r) == r.op = "destroy" /\ r.outcome.kind = "returned"

Init ==
  /\ \E s \in {Absent, "CREATE_COMPLETE", "ROLLBACK_COMPLETE", "CREATE_FAILED"} :
       \E t \in Templates :
         stack = [status |-> s,
                  template |-> IF s = "CREATE_COMPLETE" THEN t ELSE Undefined,
                  pending |-> Undefined]
  /\ changeSets = [i \in RunIds |-> NoChangeSet]
  /\ bucket = {}
  /\ monitors = {}
  /\ nextRun = 1
  /\ inv = [p \in Procs |-> Idle]


\* --------------------------------------------------------- control plane
\* createChangeSet is accepted for a CREATE of a stack that is not there and
\* for an UPDATE of a stack that is there and can be updated
AcceptsChangeSet(type) ==
  IF type = "CREATE" THEN stack.status \in {Absent, "DELETE_COMPLETE"}
  ELSE stack.status \in SuccessStatuses \cup {"UPDATE_ROLLBACK_COMPLETE"}

\* deleteStack starts the deletion of a stack that is there
CfnDeleteStack ==
  IF stack.status \in {Absent, "DELETE_COMPLETE"} THEN stack
  ELSE [stack EXCEPT !.status = "DELETE_IN_PROGRESS"]

\* an operation of the control plane that was in progress ends
CfnStackSettles ==
  /\ stack.status \in InProgressStatuses
  /\ \E s \in SettledStatuses(stack.status) :
       stack' = [status |-> s,
                 template |-> IF s \in SuccessStatuses THEN stack.pending
                              ELSE IF s \in {"UPDATE_ROLLBACK_COMPLETE", "DELETE_FAILED"} THEN stack.template
                              ELSE Undefined,
                 pending |-> Undefined]
  /\ UNCHANGED <<changeSets, bucket, monitors, nextRun, inv>>

\* a deleted stack is no longer listed under its name
CfnForgetsDeleted ==
  /\ stack.status = "DELETE_COMPLETE"
  /\ stack' = [status |-> Absent, template |-> Undefined, pending |-> Undefined]
  /\ UNCHANGED <<changeSets, bucket, monitors, nextRun, inv>>

\* the control plane finishes computing change set id: no changes when the
\* template is the one already deployed
CfnChangeSetSettles(id) ==
  /\ changeSets[id].status = "CREATE_IN_PROGRESS"
  /\ IF changeSets[id].type = "UPDATE" /\ changeSets[id].template = stack.template
       THEN changeSets' = [changeSets EXCEPT ![id].status = "FAILED", ![id].changes = 0]
       ELSE \E n \in 1 .. MaxChanges :
              changeSets' = [changeSets EXCEPT ![id].status = "CREATE_COMPLETE", ![id].changes = n]
  /\ UNCHANGED <<stack, bucket, monitors, nextRun, inv>>

\* ------------------------------------------------------------- deployStack
\* lines 37-40
StartDeploy(p) ==
  /\ inv[p].pc \in {"idle", "done"}
  /\ nextRun <= MaxRuns
  /\ \E env \in BOOLEAN, toolkit \in BOOLEAN, quiet \in BOOLEAN, t \in Templates :
       LET r == [Idle EXCEPT !.op = "deploy", !.env = env, !.toolkit = toolkit,
                             !.quiet = quiet, !.template = t, !.run = nextRun,
                             !.afterDestroy = AfterDestroy(inv[p]), !.stackAtStart = stack]
       IN inv' = [inv EXCEPT ![p] = IF MissingEnvironment(r.env) THEN Thrown(r, "NoEnvironment", "none")
                                    ELSE At(r, "prepareAssets")]
  /\ nextRun' = nextRun + 1
  /\ UNCHANGED <<stack, changeSets, bucket, monitors>>

\* variant: the execution id is the same for every invocation
FreshExecutionId_Fixed(run) == 1

\* line 46: uuid.v4() gives an id no other invocation has
FreshExecutionId(run) == run

\* lines 42-46: the assets are prepared, then the execution id is drawn
PrepareAssets(p) ==
  /\ inv[p].pc = "prepareAssets"
  /\ \E ok \in BOOLEAN :
       LET r == Logged(inv[p], "prepareAssets", Undefined)
       IN inv' = [inv EXCEPT ![p] = IF ok THEN At([r EXCEPT !.executionId = FreshExecutionId(r.run)], "cloudFormation")
                                    ELSE Failed(r)]
  /\ UNCHANGED <<stack, changeSets, bucket, monitors, nextRun>>

\* line 48
CloudFormationClient(p) ==
  /\ inv[p].pc = "cloudFormation"
  /\ \E ok \in BOOLEAN :
       LET r == Logged(inv[p], "sdk.cloudFormation", Undefined)
       IN inv' = [inv EXCEPT ![p] = IF ok THEN At(r, "makeBodyParameter")
                                    ELSE Failed(r)]
  /\ UNCHANGED <<stack, changeSets, bucket, monitors, nextRun>>

\* line 49 and lines 114-136
MakeBodyParameter(p) ==
  /\ inv[p].pc = "makeBodyParameter"
  /\ LET b == makeBodyParameter(inv[p].template, inv[p].toolkit)
         r == IF inv[p].toolkit THEN Logged(inv[p], "uploadIfChanged", UploadKey(inv[p].template))
              ELSE inv[p]
     IN \E ok \in BOOLEAN :
          IF inv[p].toolkit /\ ~ok
            THEN /\ inv' = [inv EXCEPT ![p] = Failed(r)]
                 /\ UNCHANGED bucket
          ELSE IF b.throws
            THEN /\ inv' = [inv EXCEPT ![p] = Thrown(r, "TemplateTooLarge", "none")]
                 /\ UNCHANGED bucket
          ELSE /\ inv' = [inv EXCEPT ![p] = At([r EXCEPT !.bodyParameter = b], "stackFailedCreating")]
               /\ bucket' = IF inv[p].toolkit THEN bucket \cup {UploadKey(inv[p].template)} ELSE bucket
  /\ UNCHANGED <<stack, changeSets, monitors, nextRun>>

\* variant: the stack is deleted before every deployment
NeedsCleanup_Always(failedCreating) == TRUE

\* line 51: the stack is deleted first when it failed creation
NeedsCleanup(failedCreating) == failedCreating

\* line 51
StackFailedCreating(p) ==
  /\ inv[p].pc = "stackFailedCreating"
  /\ \E ok \in BOOLEAN :
       LET r == Logged(inv[p], "describeStacks", Undefined)
       IN inv' = [inv EXCEPT ![p] =
                    IF ~ok THEN Failed(r)
                    ELSE At([r EXCEPT !.failedCreating = stackFailedCreating],
                            IF NeedsCleanup(stackFailedCreating) THEN "deleteStack" ELSE "stackExists")]
  /\ UNCHANGED <<stack, changeSets, bucket, monitors, nextRun>>

\* line 53
DeleteFailedStack(p) ==
  /\ inv[p].pc = "deleteStack"
  /\ \E ok \in BOOLEAN :
       LET r == Logged(inv[p], "deleteStack", Undefined)
       IN IF ok
            THEN /\ inv' = [inv EXCEPT ![p] = At(r, "waitForDeleted")]
                 /\ stack' = CfnDeleteStack
            ELSE /\ inv' = [inv EXCEPT ![p] = Failed(r)]
                 /\ UNCHANGED stack
  /\ UNCHANGED <<changeSets, bucket, monitors, nextRun>>

\* lines 54-57
WaitForDeleted(p) ==
  /\ inv[p].pc = "waitForDeleted"
  /\ \E ok \in BOOLEAN :
       LET r == LoggedPoll(inv[p], "describeStacks", Undefined)
           d == describeStack
           w == waitForStack(d, FALSE)
       IN inv' = [inv EXCEPT ![p] =
                    IF ~ok THEN Failed(r)
                    ELSE IF w = "poll" THEN r
                    ELSE IF w = "throw" THEN Thrown(r, "WaitForStack", d)
                    ELSE IF CleanupFailed(d)
                      THEN Thrown([r EXCEPT !.deletedStack = d], "FailedDeleting", d)
                    ELSE At([r EXCEPT !.deletedStack = d], "stackExists")]
  /\ UNCHANGED <<stack, changeSets, bucket, monitors, nextRun>>

\* line 60
StackExists(p) ==
  /\ inv[p].pc = "stackExists"
  /\ \E ok \in BOOLEAN :
       LET r == Logged(inv[p], "describeStacks", Undefined)
       IN inv' = [inv EXCEPT ![p] =
                    IF ~ok THEN Failed(r)
                    ELSE At([r EXCEPT !.update = stackExists, !.checked = TRUE,
                                      !.existedAtCheck = (stack.status # Absent)],
                            "createChangeSet")]
  /\ UNCHANGED <<stack, changeSets, bucket, monitors, nextRun>>

\* lines 62-75
CreateChangeSet(p) ==
  /\ inv[p].pc = "createChangeSet"
  /\ \E ok \in BOOLEAN :
       LET changeSetName == inv[p].executionId
           req == [ChangeSetName |-> changeSetName,
                   ChangeSetType |-> ChangeSetType(inv[p].update),
                   TemplateBody |-> inv[p].bodyParameter.TemplateBody,
                   TemplateURL |-> inv[p].bodyParameter.TemplateURL]
           r == [Logged(inv[p], "createChangeSet", changeSetName) EXCEPT !.request = req]
       IN IF ok /\ AcceptsChangeSet(req.ChangeSetType)
            THEN /\ inv' = [inv EXCEPT ![p] = At(r, "waitForChangeSet")]
                 /\ changeSets' = [changeSets EXCEPT ![changeSetName] =
                                     [status |-> "CREATE_IN_PROGRESS", type |-> req.ChangeSetType,
                                      template |-> inv[p].template, changes |-> 0]]
            ELSE /\ inv' = [inv EXCEPT ![p] = Failed(r)]
                 /\ UNCHANGED changeSets
  /\ UNCHANGED <<stack, bucket, monitors, nextRun>>

\* lines 76-78, 83
WaitForChangeSet(p) ==
  /\ inv[p].pc = "waitForChangeSet"
  /\ \E ok \in BOOLEAN :
       LET changeSetName == inv[p].executionId
           r == LoggedPoll(inv[p], "describeChangeSet", changeSetName)
           cs == changeSets[changeSetName]
       IN IF ~ok THEN inv' = [inv EXCEPT ![p] = Failed(r)]
          ELSE IF cs.status = "CREATE_IN_PROGRESS" THEN inv' = [inv EXCEPT ![p] = r]
          ELSE \E d \in ChangeSetDescriptions(cs) :
                 inv' = [inv EXCEPT ![p] =
                           At([r EXCEPT !.changeSetDescription = d, !.described = TRUE],
                              IF IsNoOp(d) THEN "deleteChangeSet" ELSE "executeChangeSet")]
  /\ UNCHANGED <<stack, changeSets, bucket, monitors, nextRun>>

\* line 79
DeleteChangeSet(p) ==
  /\ inv[p].pc = "deleteChangeSet"
  /\ \E ok \in BOOLEAN :
       LET changeSetName == inv[p].executionId
           r == Logged(inv[p], "deleteChangeSet", changeSetName)
       IN IF ok
            THEN /\ inv' = [inv EXCEPT ![p] = At(r, "noOpOutputs")]
                 /\ changeSets' = [changeSets EXCEPT ![changeSetName].status = "DELETED"]
            ELSE /\ inv' = [inv EXCEPT ![p] = Failed(r)]
                 /\ UNCHANGED changeSets
  /\ UNCHANGED <<stack, bucket, monitors, nextRun>>

\* line 80
NoOpOutputs(p) ==
  /\ inv[p].pc = "noOpOutputs"
  /\ \E ok \in BOOLEAN :
       LET r == Logged(inv[p], "describeStacks", Undefined)
       IN inv' = [inv EXCEPT ![p] = IF ok THEN Returned(r, TRUE, getStackOutputs)
                                    ELSE Failed(r)]
  /\ UNCHANGED <<stack, changeSets, bucket, monitors, nextRun>>

\* lines 84-87: the change set is executed, then the monitor is started
ExecuteChangeSet(p) ==
  /\ inv[p].pc = "executeChangeSet"
  /\ \E ok \in BOOLEAN :
       LET changeSetName == inv[p].executionId
           cs == changeSets[changeSetName]
           r == Logged(inv[p], "executeChangeSet", changeSetName)
       IN IF ok /\ cs.status = "CREATE_COMPLETE" /\ AcceptsChangeSet(cs.type)
            THEN /\ changeSets' = [changeSets EXCEPT ![changeSetName].status = "EXECUTED"]
                 /\ stack' = [status |-> IF cs.type = "CREATE" THEN "CREATE_IN_PROGRESS"
                                         ELSE "UPDATE_IN_PROGRESS",
                              template |-> IF cs.type = "CREATE" THEN Undefined ELSE stack.template,
                              pending |-> cs.template]
                 /\ IF ~MonitorWanted(inv[p].quiet)
                      THEN /\ inv' = [inv EXCEPT ![p] = At(r, "waitForStack")]
                           /\ UNCHANGED monitors
                      ELSE /\ inv' = [inv EXCEPT ![p] =
                                        At([Logged(r, "monitor.start", Undefined) EXCEPT !.monitor = TRUE],
                                           "waitForStack")]
                           /\ monitors' = monitors \cup {inv[p].run}
            ELSE /\ inv' = [inv EXCEPT ![p] = Failed(r)]
                 /\ UNCHANGED <<stack, changeSets, monitors>>
  /\ UNCHANGED <<bucket, nextRun>>

\* variant: the result of the first look at the stack is taken, whatever it is
WaitForStack_NoWait(p) ==
  /\ inv[p].pc = "waitForStack"
  /\ \E ok \in BOOLEAN :
       LET r == LoggedPoll(inv[p], "describeStacks", Undefined)
           d == describeStack
       IN inv' = [inv EXCEPT ![p] =
                    IF ~ok THEN Failed(r)
                    ELSE At([r EXCEPT !.waited = d],
                            IF r.monitor THEN "monitorStop" ELSE "outputs")]
  /\ UNCHANGED <<stack, changeSets, bucket, monitors, nextRun>>

\* line 88
WaitForStack(p) ==
  /\ inv[p].pc = "waitForStack"
  /\ \E ok \in BOOLEAN :
       LET r == LoggedPoll(inv[p], "describeStacks", Undefined)
           d == describeStack
           w == waitForStack(d, TRUE)
       IN inv' = [inv EXCEPT ![p] =
                    IF ~ok THEN Failed(r)
                    ELSE IF w = "poll" THEN r
                    ELSE IF w = "throw" THEN Thrown(r, "WaitForStack", d)
                    ELSE At([r EXCEPT !.waited = d],
                            IF r.monitor THEN "monitorStop" ELSE "outputs")]
  /\ UNCHANGED <<stack, changeSets, bucket, monitors, nextRun>>

\* line 89: the stop of the monitor is awaited, with nothing to catch what
\* it throws
MonitorStop(p) ==
  /\ inv[p].pc = "monitorStop"
  /\ \E ok \in BOOLEAN :
       LET r == Logged(inv[p], "monitor.stop", Undefined)
       IN inv' = [inv EXCEPT ![p] = IF ok THEN At(r, "outputs") ELSE Failed(r)]
  /\ monitors' = monitors \ {inv[p].run}
  /\ UNCHANGED <<stack, changeSets, bucket, nextRun>>

\* line 91
DeployOutputs(p) ==
  /\ inv[p].pc = "outputs"
  /\ \E ok \in BOOLEAN :
       LET r == Logged(inv[p], "describeStacks", Undefined)
       IN inv' = [inv EXCEPT ![p] = IF ok THEN Returned(r, FALSE, getStackOutputs)
                                    ELSE Failed(r)]
  /\ UNCHANGED <<stack, changeSets, bucket, monitors, nextRun>>

\* ------------------------------------------------------------ destroyStack
\* lines 146-149
StartDestroy(p) ==
  /\ inv[p].pc \in {"idle", "done"}
  /\ nextRun <= MaxRuns
  /\ \E env \in BOOLEAN, quiet \in BOOLEAN :
       LET r == [Idle EXCEPT !.op = "destroy", !.env = env, !.quiet = quiet, !.run = nextRun,
                             !.afterDestroy = AfterDestroy(inv[p]), !.stackAtStart = stack]
       IN inv' = [inv EXCEPT ![p] = IF MissingEnvironment(r.env) THEN Thrown(r, "NoEnvironment", "none")
                                    ELSE At(r, "x_cloudFormation")]
  /\ nextRun' = nextRun + 1
  /\ UNCHANGED <<stack, changeSets, bucket, monitors>>

\* line 152
DestroyClient(p) ==
  /\ inv[p].pc = "x_cloudFormation"
  /\ \E ok \in BOOLEAN :
       LET r == Logged(inv[p], "sdk.cloudFormation", Undefined)
       IN inv' = [inv EXCEPT ![p] = IF ok THEN At(r, "x_stackExists")
                                    ELSE Failed(r)]
  /\ UNCHANGED <<stack, changeSets, bucket, monitors, nextRun>>

\* lines 153-156: the existence check, then the monitor is started
DestroyStackExists(p) ==
  /\ inv[p].pc = "x_stackExists"
  /\ \E ok \in BOOLEAN :
       LET q == Logged(inv[p], "describeStacks", Undefined)
           r == [q EXCEPT !.checked = TRUE, !.existedAtCheck = (stack.status # Absent)]
       IN IF ~ok
            THEN /\ inv' = [inv EXCEPT ![p] = Failed(q)]
                 /\ UNCHANGED monitors
          ELSE IF DestroyReturnsEarly(stackExists)
            THEN /\ inv' = [inv EXCEPT ![p] = Returned(r, FALSE, Undefined)]
                 /\ UNCHANGED monitors
          ELSE IF ~MonitorWanted(inv[p].quiet)
            THEN /\ inv' = [inv EXCEPT ![p] = At(r, "x_deleteStack")]
                 /\ UNCHANGED monitors
          ELSE /\ inv' = [inv EXCEPT ![p] =
                            At([Logged(r, "monitor.start", Undefined) EXCEPT !.monitor = TRUE],
                               "x_deleteStack")]
               /\ monitors' = monitors \cup {inv[p].run}
  /\ UNCHANGED <<stack, changeSets, bucket, nextRun>>

\* line 157: the catch handler rethrows what it caught
DestroyDeleteStack(p) ==
  /\ inv[p].pc = "x_deleteStack"
  /\ \E ok \in BOOLEAN :
       LET r == Logged(inv[p], "deleteStack", Undefined)
       IN IF ok
            THEN /\ inv' = [inv EXCEPT ![p] = At(r, "x_waitForStack")]
                 /\ stack' = CfnDeleteStack
            ELSE /\ inv' = [inv EXCEPT ![p] = Failed(r)]
                 /\ UNCHANGED stack
  /\ UNCHANGED <<changeSets, bucket, monitors, nextRun>>

\* variant: the final status is not looked at
DestroyCheck_Ignored(r, destroyedStack) == Returned(r, FALSE, Undefined)

\* lines 160-164
DestroyCheck(r, destroyedStack) ==
  IF destroyedStack # "undefined" /\ destroyedStack # "DELETE_COMPLETE"
    THEN Thrown(r, "FailedToDestroy", destroyedStack)
    ELSE Returned(r, FALSE, Undefined)

\* variant: the wait ends only when the stack is not listed any more
DestroyWait_UntilUnlisted(p) ==
  /\ inv[p].pc = "x_waitForStack"
  /\ \E ok \in BOOLEAN :
       LET r == LoggedPoll(inv[p], "describeStacks", Undefined)
           d == describeStack
       IN inv' = [inv EXCEPT ![p] =
                    IF ~ok THEN Failed(r)
                    ELSE IF d # "undefined" THEN r
                    ELSE IF r.monitor THEN At([r EXCEPT !.deletedStack = d, !.waited = d], "x_monitorStop")
                    ELSE DestroyCheck([r EXCEPT !.deletedStack = d, !.waited = d], d)]
  /\ UNCHANGED <<stack, changeSets, bucket, monitors, nextRun>>

\* line 158, and lines 160-164 when there is no monitor to stop
DestroyWait(p) ==
  /\ inv[p].pc = "x_waitForStack"
  /\ \E ok \in BOOLEAN :
       LET r == LoggedPoll(inv[p], "describeStacks", Undefined)
           d == describeStack
           w == waitForStack(d, FALSE)
       IN inv' = [inv EXCEPT ![p] =
                    IF ~ok THEN Failed(r)
                    ELSE IF w = "poll" THEN r
                    ELSE IF w = "throw" THEN Thrown(r, "WaitForStack", d)
                    ELSE IF r.monitor THEN At([r EXCEPT !.deletedStack = d, !.waited = d], "x_monitorStop")
                    ELSE DestroyCheck([r EXCEPT !.deletedStack = d, !.waited = d], d)]
  /\ UNCHANGED <<stack, changeSets, bucket, monitors, nextRun>>

\* lines 159-164
DestroyMonitorStop(p) ==
  /\ inv[p].pc = "x_monitorStop"
  /\ \E ok \in BOOLEAN :
       LET r == Logged(inv[p], "monitor.stop", Undefined)
       IN inv' = [inv EXCEPT ![p] = IF ok THEN DestroyCheck(r, inv[p].deletedStack) ELSE Failed(r)]
  /\ monitors' = monitors \ {inv[p].run}
  /\ UNCHANGED <<stack, changeSets, bucket, nextRun>>

\* ------------------------------------------------------------ specification
Next ==
  \/ CfnStackSettles
  \/ CfnForgetsDeleted
  \/ \E id \in RunIds : CfnChangeSetSettles(id)
  \/ \E p \in Procs : StartDeploy(p)
  \/ \E p \in Procs : PrepareAssets(p)
  \/ \E p \in Procs : CloudFormationClient(p)
  \/ \E p \in Procs : MakeBodyParameter(p)
  \/ \E p \in Procs : StackFailedCreating(p)
  \/ \E p \in Procs : DeleteFailedStack(p)
  \/ \E p \in Procs : WaitForDeleted(p)
  \/ \E p \in Procs : StackExists(p)
  \/ \E p \in Procs : CreateChangeSet(p)
  \/ \E p \in Procs : WaitForChangeSet(p)
  \/ \E p \in Procs : DeleteChangeSet(p)
  \/ \E p \in Procs : NoOpOutputs(p)
  \/ \E p \in Procs : ExecuteChangeSet(p)
  \/ \E p \in Procs : WaitForStack(p)
  \/ \E p \in Procs : MonitorStop(p)
  \/ \E p \in Procs : DeployOutputs(p)
  \/ \E p \in Procs : StartDestroy(p)
  \/ \E p \in Procs : DestroyClient(p)
  \/ \E p \in Procs : DestroyStackExists(p)
  \/ \E p \in Procs : DestroyDeleteStack(p)
  \/ \E p \in Procs : DestroyWait(p)
  \/ \E p \in Procs : DestroyMonitorStop(p)

Spec == Init /\ [][Next]_vars

\* two callers that deploy the same stack name, at the same time or one
\* after the other
\* ------------------------------------------------------------- fairness
\* a call of caller p that is made once: it returns or it fails
Calls(p) ==
  \/ PrepareAssets(p) \/ CloudFormationClient(p) \/ MakeBodyParameter(p)
  \/ StackFailedCreating(p) \/ DeleteFailedStack(p) \/ StackExists(p)
  \/ CreateChangeSet(p) \/ DeleteChangeSet(p) \/ NoOpOutputs(p)
  \/ ExecuteChangeSet(p) \/ MonitorStop(p) \/ DeployOutputs(p)
  \/ DestroyClient(p) \/ DestroyStackExists(p) \/ DestroyDeleteStack(p)
  \/ DestroyMonitorStop(p)

\* a wait of caller p that ends because it saw what it waits for: that a
\* poll fails is possible but never promised
Polls(p) ==
  /\ WaitForDeleted(p) \/ WaitForChangeSet(p) \/ WaitForStack(p) \/ DestroyWait(p)
  /\ inv'[p].outcome.err # "RemoteError"

\* every call returns, every change set and every stack operation settles
Fairness ==
  /\ \A p \in Procs : WF_vars(Calls(p)) /\ WF_vars(Polls(p))
  /\ WF_vars(CfnStackSettles)
  /\ \A id \in RunIds : WF_vars(CfnChangeSetSettles(id))

\* what the control plane can hold under the stack's name when an
\* invocation starts
LiveStacks ==
  {NoStack}
    \cup {[status |-> st, template |-> t, pending |-> Undefined] :
            st \in SuccessStatuses \cup {"UPDATE_ROLLBACK_COMPLETE", "DELETE_FAILED", "DELETE_IN_PROGRESS"},
            t \in Templates}
    \cup {[status |-> st, template |-> Undefined, pending |-> Undefined] :
            st \in CreationFailureStatuses \cup {"DELETE_COMPLETE"}}
    \cup {[status |-> "CREATE_IN_PROGRESS", template |-> Undefined, pending |-> t] : t \in Templates}
    \cup {[status |-> "UPDATE_IN_PROGRESS", template |-> x[1], pending |-> x[2]] :
            x \in {y \in Templates \X Templates : y[1] # y[2]}}

\* no invocation yet, the stack in any state earlier invocations can leave
InitLive ==
  /\ stack \in LiveStacks
  /\ changeSets = [i \in RunIds |-> NoChangeSet]
  /\ bucket = {}
  /\ monitors = {}
  /\ nextRun = 1
  /\ inv = [p \in Procs |-> Idle]

StartDeployOnce(p) == inv[p].pc = "idle" /\ StartDeploy(p)

StartDestroyOnce(p) == inv[p].pc = "idle" /\ StartDestroy(p)

\* one invocation, from its start to its end
NextLive ==
  \/ CfnStackSettles
  \/ CfnForgetsDeleted
  \/ \E id \in RunIds : CfnChangeSetSettles(id)
  \/ \E p \in Procs : StartDeployOnce(p)
  \/ \E p \in Procs : StartDestroyOnce(p)
  \/ \E p \in Procs : Calls(p)
  \/ \E p \in Procs : WaitForDeleted(p)
  \/ \E p \in Procs : WaitForChangeSet(p)
  \/ \E p \in Procs : WaitForStack(p)
  \/ \E p \in Procs : DestroyWait(p)

SpecLive == InitLive /\ [][NextLive]_vars /\ Fairness

\* ------------------------------------------- two callers, the same stack
Callers == {1, 2}

InitConc ==
  /\ \E s \in {Absent, "CREATE_COMPLETE", "ROLLBACK_COMPLETE", "CREATE_FAILED"} :
       \E t \in Templates :
         stack = [status |-> s,
                  template |-> IF s = "CREATE_COMPLETE" THEN t ELSE Undefined,
                  pending |-> Undefined]
  /\ changeSets = [i \in RunIds |-> NoChangeSet]
  /\ bucket = {}
  /\ monitors = {}
  /\ nextRun = 1
  /\ inv = [p \in Callers |-> Idle]

\* the deploys of the two callers: an environment, no toolkit, no monitor, a
\* template that can be passed in line
StartDeployQuietly(p) ==
  /\ StartDeploy(p)
  /\ inv'[p].env
  /\ inv'[p].quiet
  /\ ~inv'[p].toolkit
  /\ inv'[p].template = LimitBytes

NextConc ==
  \/ CfnStackSettles
  \/ CfnForgetsDeleted
  \/ \E id \in RunIds : CfnChangeSetSettles(id)
  \/ \E p \in Callers : StartDeployQuietly(p)
  \/ \E p \in Callers : PrepareAssets(p)
  \/ \E p \in Callers : CloudFormationClient(p)
  \/ \E p \in Callers : MakeBodyParameter(p)
  \/ \E p \in Callers : StackFailedCreating(p)
  \/ \E p \in Callers : DeleteFailedStack(p)
  \/ \E p \in Callers : WaitForDeleted(p)
  \/ \E p \in Callers : StackExists(p)
  \/ \E p \in Callers : CreateChangeSet(p)
  \/ \E p \in Callers : WaitForChangeSet(p)
  \/ \E p \in Callers : DeleteChangeSet(p)
  \/ \E p \in Callers : NoOpOutputs(p)
  \/ \E p \in Callers : ExecuteChangeSet(p)
  \/ \E p \in Callers : WaitForStack(p)
  \/ \E p \in Callers : DeployOutputs(p)

SpecConc == InitConc /\ [][NextConc]_vars

\* ------------------------------------------ makeBodyParameter on its own
\* the size the documentation of makeBodyParameter gives as the largest
\* template that is passed in line
DocLimitBytes == 50200

\* lengths around the documented size and the size the code tests
BodyLengths == (DocLimitBytes - MaxOver) .. (LimitBytes + MaxOver)

\* a deployStack that is about to call makeBodyParameter (line 49)
InitBody ==
  /\ stack = NoStack
  /\ changeSets = [i \in RunIds |-> NoChangeSet]
  /\ bucket = {}
  /\ monitors = {}
  /\ nextRun = 2
  /\ \E len \in BodyLengths, toolkit \in BOOLEAN :
       inv = [p \in Procs |->
                [Idle EXCEPT !.pc = "makeBodyParameter", !.op = "deploy", !.env = TRUE,
                             !.toolkit = toolkit, !.template = len, !.run = 1,
                             !.executionId = FreshExecutionId(1),
                             !.calls = <<Call("prepareAssets", Undefined),
                                         Call("sdk.cloudFormation", Undefined)>>]]

NextBody == \E p \in Procs : MakeBodyParameter(p)

SpecBody == InitBody /\ [][NextBody]_vars

\* ------------------------------- the same invocation, quiet and not quiet
\* Two runs of one invocation are made side by side from the same state of
\* the control plane, each with a control plane of its own: one with
\* quiet = true, one with quiet = false and otherwise the same inputs. The
\* variables hold the run whose turn it is, slot 0 of inv holds the other
\* run. The quiet run makes a step, then the other run makes the step that
\* answers it: the same call with the same response, or the same step of
\* the control plane.
Twin == 0

\* the state of the control plane and of the invocation r
WorldOf(r) ==
  [stack |-> stack, changeSets |-> changeSets, bucket |-> bucket,
   monitors |-> monitors, nextRun |-> nextRun, r |-> r]

World == WorldOf(inv[1])

\* turn: the run the variables hold; other: the run they do not hold;
\* mark: the run they hold, as it was when its turn began;
\* callerMoved: the step to answer was one of the invocation
NoTwin ==
  [turn |-> "quiet", other |-> WorldOf(Idle), mark |-> WorldOf(Idle), callerMoved |-> FALSE]

InitTwin ==
  /\ stack \in LiveStacks
  /\ changeSets = [i \in RunIds |-> NoChangeSet]
  /\ bucket = {}
  /\ monitors = {}
  /\ nextRun = 1
  /\ inv = [p \in {Twin} \cup Procs |-> IF p = Twin THEN NoTwin ELSE Idle]

\* the run whose turn it is has not made its step yet
QuietTurn == inv[Twin].turn = "quiet" /\ inv[Twin].mark = World

LoudTurn == inv[Twin].turn = "loud" /\ inv[Twin].mark = World

Running == inv[1].pc \notin {"idle", "done"}

AtMonitorStop(r) == r.pc \in {"monitorStop", "x_monitorStop"}

\* the quiet run starts
QuietDeploy(p) ==
  /\ QuietTurn /\ inv[p].pc = "idle"
  /\ StartDeploy(p)
  /\ inv'[p].quiet

QuietDestroy(p) ==
  /\ QuietTurn /\ inv[p].pc = "idle"
  /\ StartDestroy(p)
  /\ inv'[p].quiet

\* a step of the control plane while the invocation runs
ControlPlane ==
  \/ CfnStackSettles
  \/ CfnForgetsDeleted
  \/ \E id \in RunIds : CfnChangeSetSettles(id)

\* a step of the invocation other than the stop of its monitor
Awaits(p) ==
  \/ PrepareAssets(p) \/ CloudFormationClient(p) \/ MakeBodyParameter(p)
  \/ StackFailedCreating(p) \/ DeleteFailedStack(p) \/ WaitForDeleted(p)
  \/ StackExists(p) \/ CreateChangeSet(p) \/ WaitForChangeSet(p)
  \/ DeleteChangeSet(p) \/ NoOpOutputs(p) \/ ExecuteChangeSet(p)
  \/ WaitForStack(p) \/ DeployOutputs(p)
  \/ DestroyClient(p) \/ DestroyStackExists(p) \/ DestroyDeleteStack(p)
  \/ DestroyWait(p)

\* a step of the quiet run
QuietStep ==
  /\ QuietTurn /\ Running
  /\ ControlPlane \/ Awaits(1)

\* the variables are given to the run in slot 0, the run they held goes to
\* slot 0
Swap(turn, callerMoved) ==
  /\ stack' = inv[Twin].other.stack
  /\ changeSets' = inv[Twin].other.changeSets
  /\ bucket' = inv[Twin].other.bucket
  /\ monitors' = inv[Twin].other.monitors
  /\ nextRun' = inv[Twin].other.nextRun
  /\ inv' = [inv EXCEPT ![Twin] = [turn |-> turn, other |-> World, mark |-> inv[Twin].other,
                                   callerMoved |-> callerMoved],
                        ![1] = inv[Twin].other.r]

\* the quiet run made a step: the turn goes to the other run
ToLoud ==
  /\ inv[Twin].turn = "quiet" /\ inv[Twin].mark # World
  /\ Swap("loud", inv[1] # inv[Twin].mark.r)

\* the inputs of invocation a are those of invocation b, quiet apart
SameInputs(a, b) ==
  /\ a.op = b.op
  /\ a.env = b.env
  /\ a.toolkit = b.toolkit
  /\ a.template = b.template

\* the other run starts: as the quiet one, but not quiet
LoudDeploy(p) ==
  /\ LoudTurn /\ inv[Twin].callerMoved /\ inv[p].pc = "idle"
  /\ StartDeploy(p)
  /\ SameInputs(inv'[p], inv[Twin].other.r)
  /\ ~inv'[p].quiet

LoudDestroy(p) ==
  /\ LoudTurn /\ inv[Twin].callerMoved /\ inv[p].pc = "idle"
  /\ StartDestroy(p)
  /\ SameInputs(inv'[p], inv[Twin].other.r)
  /\ ~inv'[p].quiet

\* the call of this step is answered as the call of the quiet run was:
\* it fails if that one failed, and describes the change set as that one did
SameResponse(r, q) ==
  /\ (r.outcome.err = "RemoteError") = (q.outcome.err = "RemoteError")
  /\ r.changeSetDescription = q.changeSetDescription

\* a step of the other run: the invocation moves if the quiet one moved and
\* gets the same response, else the control plane moves as it moved there
LoudStep ==
  /\ LoudTurn /\ Running
  /\ IF inv[Twin].callerMoved
       THEN /\ Awaits(1)
            /\ SameResponse(inv'[1], inv[Twin].other.r)
       ELSE /\ ControlPlane
            /\ stack' = inv[Twin].other.stack
            /\ changeSets' = inv[Twin].other.changeSets

\* lines 89 and 159: the other run stops its monitor, which the quiet run
\* has no step for
LoudMonitorStop ==
  /\ inv[Twin].turn = "loud"
  /\ MonitorStop(1) \/ DestroyMonitorStop(1)

\* the other run made its step: the turn goes back to the quiet run
ToQuiet ==
  /\ inv[Twin].turn = "loud" /\ inv[Twin].mark # World /\ ~AtMonitorStop(inv[1])
  /\ Swap("quiet", FALSE)

\* what the other run can do to answer the step of the quiet run
LoudAnswer ==
  \/ \E p \in Procs : LoudDeploy(p)
  \/ \E p \in Procs : LoudDestroy(p)
  \/ LoudStep

NextTwin ==
  \/ \E p \in Procs : QuietDeploy(p)
  \/ \E p \in Procs : QuietDestroy(p)
  \/ QuietStep
  \/ ToLoud
  \/ \E p \in Procs : LoudDeploy(p)
  \/ \E p \in Procs : LoudDestroy(p)
  \/ LoudStep
  \/ LoudMonitorStop
  \/ ToQuiet

SpecTwin == InitTwin /\ [][NextTwin]_vars

\* ------------------------------------------------------------- properties
Issued(r, c) == \E i \in 1 .. Len(r.calls) : r.calls[i].call = c

\* the position of the first call c of invocation r, 0 if there is none
FirstIndex(r, c) ==
  IF Issued(r, c)
    THEN CHOOSE i \in 1 .. Len(r.calls) :
           /\ r.calls[i].call = c
           /\ \A j \in 1 .. (i - 1) : r.calls[j].call # c
    ELSE 0

CallsOf(r, c) == {i \in 1 .. Len(r.calls) : r.calls[i].call = c}

ControlPlaneCalls == {"describeStacks", "deleteStack", "createChangeSet", "describeChangeSet",
                      "deleteChangeSet", "executeChangeSet"}

\* C1: a createChangeSet request is of type CREATE exactly when the stack did
\* not exist at the existence check (made after any cleanup of a stack that
\* failed creation), and of type UPDATE exactly when it existed.
C1_ChangeSetTypeFollowsExistence ==
  \A p \in Procs :
    LET r == inv[p] IN
    r.request.ChangeSetType # "NONE" =>
      /\ r.checked
      /\ r.request.ChangeSetType = "CREATE" <=> ~r.existedAtCheck
      /\ r.request.ChangeSetType = "UPDATE" <=> r.existedAtCheck

C1_Witness ==
  \E p \in Procs :
    /\ inv[p].failedCreating
    /\ ~inv[p].existedAtCheck
    /\ inv[p].request.ChangeSetType = "CREATE"

\* C2: once the wait for the change set gave no description, no Changes field
\* or an empty change list, deleteChangeSet is the next call and is issued
\* once, for the name of the created change set; executeChangeSet is never
\* issued, no monitor is started, and the invocation ends by returning noOp =
\* true unless deleteChangeSet or the reading of the outputs fails.
C2_EmptyChangeSetIsDeleted ==
  \A p \in Procs :
    LET r == inv[p] IN
    (r.described /\ r.changeSetDescription \in EmptyDescriptions) =>
      /\ ~Issued(r, "executeChangeSet")
      /\ ~Issued(r, "monitor.start")
      /\ r.run \notin monitors
      /\ r.pc \in {"deleteChangeSet", "noOpOutputs", "done"}
      /\ r.pc # "deleteChangeSet" =>
           /\ Cardinality(CallsOf(r, "deleteChangeSet")) = 1
           /\ \A i \in CallsOf(r, "deleteChangeSet") : r.calls[i].arg = r.request.ChangeSetName
      /\ r.pc = "done" =>
           \/ r.outcome.kind = "returned" /\ r.outcome.noOp
           \/ /\ r.outcome.err = "RemoteError"
              /\ r.outcome.status \in {"deleteChangeSet", "describeStacks"}

C2_Witness ==
  \E p \in Procs :
    /\ inv[p].described
    /\ inv[p].changeSetDescription = [defined |-> TRUE, hasChanges |-> TRUE, n |-> 0]
    /\ inv[p].outcome.kind = "returned"
    /\ inv[p].outcome.noOp
    /\ changeSets[inv[p].executionId].status = "DELETED"

\* C3: when a deployStack invocation that created a change set has ended,
\* by returning or by raising, the change set was executed or deleted.
C3_NoOrphanedChangeSet ==
  \A p \in Procs :
    LET r == inv[p] IN
    (r.op = "deploy" /\ r.pc = "done" /\ r.executionId # Undefined
       /\ changeSets[r.executionId].status # "NONE")
      => changeSets[r.executionId].status \in {"EXECUTED", "DELETED"}

\* C4, first two parts: a stack that failed creation is deleted and the
\* deletion awaited before any createChangeSet, and a stack still there in
\* another status than DELETE_COMPLETE ends the deploy with an error.
CleanupPrecedesChangeSet ==
  \A p \in Procs :
    LET r == inv[p] IN
    (r.op = "deploy" /\ r.failedCreating) =>
      /\ Issued(r, "createChangeSet") =>
           /\ Issued(r, "deleteStack")
           /\ FirstIndex(r, "deleteStack") < FirstIndex(r, "createChangeSet")
           /\ r.deletedStack # "none"
      /\ r.deletedStack \notin {"none", "undefined", "DELETE_COMPLETE"} =>
           /\ r.pc = "done"
           /\ r.outcome.kind = "error"
           /\ ~Issued(r, "createChangeSet")

\* C4: a stack that failed creation is deleted and the deletion awaited
\* before any createChangeSet; if it is still there in another status than
\* DELETE_COMPLETE the deploy raises and creates no change set; otherwise the
\* change set requested is of type CREATE.
C4_CleanupThenCreate ==
  /\ CleanupPrecedesChangeSet
  /\ \A p \in Procs :
       LET r == inv[p] IN
       (r.op = "deploy" /\ r.failedCreating /\ r.request.ChangeSetType # "NONE")
         => r.request.ChangeSetType = "CREATE"

\* C5: without toolkit storage a template of more than 50 * 1024 characters
\* ends the deploy with the template-too-large error (unless the preparation
\* of the assets or the acquisition of the client failed first) and no
\* control-plane call is ever issued; a template of at most 50 * 1024
\* characters is passed as TemplateBody and the deploy goes on.
C5_TemplateTooLarge ==
  \A p \in Procs :
    LET r == inv[p] IN
    (r.op = "deploy" /\ r.env /\ ~r.toolkit) =>
      IF r.template > 50 * 1024
        THEN /\ \A c \in ControlPlaneCalls : ~Issued(r, c)
             /\ r.pc \in {"prepareAssets", "cloudFormation", "makeBodyParameter", "done"}
             /\ r.pc = "done" =>
                  /\ r.outcome.kind = "error"
                  /\ \/ r.outcome.err = "TemplateTooLarge"
                     \/ /\ r.outcome.err = "RemoteError"
                        /\ r.outcome.status \in {"prepareAssets", "sdk.cloudFormation"}
        ELSE /\ r.outcome.err # "TemplateTooLarge"
             /\ (Issued(r, "describeStacks") \/ r.pc = "stackFailedCreating") =>
                  /\ r.bodyParameter.TemplateBody = r.template
                  /\ r.bodyParameter.TemplateURL = Undefined
             /\ r.pc = "done" =>
                  \/ Issued(r, "describeStacks")
                  \/ /\ r.outcome.err = "RemoteError"
                     /\ r.outcome.status \in {"prepareAssets", "sdk.cloudFormation"}

C5_Witness ==
  \E p \in Procs :
    /\ inv[p].op = "deploy"
    /\ ~inv[p].toolkit
    /\ inv[p].template > 50 * 1024
    /\ inv[p].outcome.err = "TemplateTooLarge"
    /\ Issued(inv[p], "sdk.cloudFormation")

\* C6: with toolkit storage the template is uploaded and the createChangeSet
\* request carries TemplateURL and no TemplateBody, whatever the size of the
\* template; without it the request carries TemplateBody and no TemplateURL.
\* Every request carries exactly one of the two.
C6_BodyOrUrl ==
  \A p \in Procs :
    LET r == inv[p] IN
    r.request.ChangeSetType # "NONE" =>
      /\ r.toolkit =>
           /\ Issued(r, "uploadIfChanged")
           /\ FirstIndex(r, "uploadIfChanged") < FirstIndex(r, "createChangeSet")
           /\ r.template \in bucket
           /\ r.request.TemplateURL = r.template
           /\ r.request.TemplateBody = Undefined
      /\ ~r.toolkit =>
           /\ ~Issued(r, "uploadIfChanged")
           /\ r.request.TemplateBody = r.template
           /\ r.request.TemplateURL = Undefined
      /\ (r.request.TemplateBody = Undefined) # (r.request.TemplateURL = Undefined)

C6_Witness ==
  \E p \in Procs :
    /\ inv[p].toolkit
    /\ inv[p].template <= 50 * 1024
    /\ inv[p].request.ChangeSetType # "NONE"
    /\ inv[p].request.TemplateURL # Undefined

\* C7: a deployStack or destroyStack whose stack has no environment has ended
\* with the configuration error, has made no call at all and has started no
\* monitor.
C7_NoEnvironmentNoCalls ==
  \A p \in Procs :
    LET r == inv[p] IN
    (r.op # "none" /\ ~r.env) =>
      /\ r.pc = "done"
      /\ r.outcome.kind = "error"
      /\ r.outcome.err = "NoEnvironment"
      /\ r.calls = <<>>
      /\ ~r.monitor
      /\ r.run \notin monitors

C7_Witness ==
  \E p \in Procs :
    /\ inv[p].op = "destroy"
    /\ ~inv[p].env
    /\ inv[p].outcome.err = "NoEnvironment"

\* C8: a destroyStack that found no stack at its existence check has returned
\* without a deleteStack call and without a monitor; and no step of a
\* destroyStack that follows a destroyStack that returned changes the stack
\* or its change sets.
C8_DestroyIdempotent ==
  [][\A p \in Procs :
       LET r == inv'[p] IN
       /\ (r.op = "destroy" /\ r.checked /\ ~r.existedAtCheck) =>
            /\ r.pc = "done"
            /\ r.outcome.kind = "returned"
            /\ ~Issued(r, "deleteStack")
            /\ ~Issued(r, "monitor.start")
            /\ r.run \notin monitors'
       /\ (r.op = "destroy" /\ r.afterDestroy /\ r # inv[p]) =>
            /\ stack' = stack
            /\ changeSets' = changeSets]_vars

C8_Witness ==
  \E p \in Procs :
    /\ inv[p].op = "destroy"
    /\ inv[p].afterDestroy
    /\ inv[p].checked
    /\ ~inv[p].existedAtCheck
    /\ inv[p].outcome.kind = "returned"

C10_StartPrecedesExecute ==
  \A p \in Procs :
    LET r == inv[p] IN
    ~r.quiet =>
      /\ (r.op = "deploy" /\ Issued(r, "executeChangeSet")) =>
           /\ Issued(r, "monitor.start")
           /\ FirstIndex(r, "monitor.start") < FirstIndex(r, "executeChangeSet")
      /\ (r.op = "destroy" /\ Issued(r, "deleteStack")) =>
           /\ Issued(r, "monitor.start")
           /\ FirstIndex(r, "monitor.start") < FirstIndex(r, "deleteStack")
      /\ Issued(r, "monitor.stop") => r.waited \in TerminalStatuses \cup {"undefined"}

\* C10 as amended: without quiet, deployStack starts the monitor right after
\* executeChangeSet has returned and before it waits for the stack,
\* destroyStack starts it before the deleteStack call, and the monitor is
\* stopped only after the wait saw a terminal status or the absence of the
\* stack.
C10_StartFollowsExecute ==
  \A p \in Procs :
    LET r == inv[p] IN
    ~r.quiet =>
      /\ r.op = "deploy" =>
           /\ Issued(r, "monitor.start") =>
                /\ Issued(r, "executeChangeSet")
                /\ FirstIndex(r, "monitor.start") = FirstIndex(r, "executeChangeSet") + 1
           /\ r.pc \in {"waitForStack", "monitorStop", "outputs"} =>
                /\ Issued(r, "monitor.start")
                /\ Cardinality(CallsOf(r, "monitor.start")) = 1
      /\ (r.op = "destroy" /\ Issued(r, "deleteStack")) =>
           /\ Issued(r, "monitor.start")
           /\ FirstIndex(r, "monitor.start") < FirstIndex(r, "deleteStack")
      /\ Issued(r, "monitor.stop") =>
           /\ r.waited \in TerminalStatuses \cup {"undefined"}
           /\ r.calls[FirstIndex(r, "monitor.stop") - 1].call = "describeStacks"
           /\ FirstIndex(r, "monitor.start") < FirstIndex(r, "monitor.stop")

C10_Witness ==
  \E p \in Procs :
    /\ inv[p].op = "deploy"
    /\ ~inv[p].quiet
    /\ Issued(inv[p], "monitor.stop")
    /\ inv[p].waited = "UPDATE_COMPLETE"

\* C11: when a deployStack or destroyStack invocation has ended, by returning
\* or by raising, the activity monitor it started is no longer running.
C11_MonitorStoppedAtExit ==
  \A p \in Procs :
    inv[p].pc = "done" => inv[p].run \notin monitors

\* C13: a deployStack that returned did so after a no-op (the wait gave no
\* changes and the change set was deleted) or after executeChangeSet and a
\* wait that saw the stack in a terminal status of success; when the wait
\* after executeChangeSet sees a failure or rollback status, a deleted stack
\* or no stack, the deploy has raised and no outputs are returned.
C13_OutputsOnlyAfterSuccess ==
  \A p \in Procs :
    LET r == inv[p] IN
    r.op = "deploy" =>
      /\ r.outcome.kind = "returned" =>
           \/ /\ r.outcome.noOp
              /\ r.described
              /\ r.changeSetDescription \in EmptyDescriptions
              /\ changeSets[r.executionId].status = "DELETED"
              /\ ~Issued(r, "executeChangeSet")
           \/ /\ ~r.outcome.noOp
              /\ Issued(r, "executeChangeSet")
              /\ changeSets[r.executionId].status = "EXECUTED"
              /\ r.waited \in {"CREATE_COMPLETE", "UPDATE_COMPLETE"}
      /\ (r.pc = "done" /\ r.outcome.err = "WaitForStack" /\ Issued(r, "executeChangeSet")) =>
           /\ r.outcome.kind = "error"
           /\ r.outcome.outputs = Undefined
           /\ r.outcome.status \in
                {"undefined", "DELETE_COMPLETE", "CREATE_FAILED", "ROLLBACK_COMPLETE",
                 "UPDATE_ROLLBACK_COMPLETE", "DELETE_FAILED"}
      /\ r.pc \in {"monitorStop", "outputs"} => r.waited \in {"CREATE_COMPLETE", "UPDATE_COMPLETE"}

C13_Witness ==
  \E p \in Procs :
    /\ inv[p].op = "deploy"
    /\ inv[p].pc = "done"
    /\ Issued(inv[p], "executeChangeSet")
    /\ inv[p].outcome.err = "WaitForStack"
    /\ inv[p].outcome.status = "ROLLBACK_COMPLETE"

MutatingCalls == {"deleteStack", "createChangeSet", "deleteChangeSet", "executeChangeSet"}

\* C14: an invocation issues each mutating control-plane call at most once,
\* and when a call fails the invocation has ended with the error of that
\* call, which is the last call it issued.
C14_ErrorsPropagate ==
  \A p \in Procs :
    LET r == inv[p] IN
    /\ \A i \in 1 .. Len(r.calls) :
         r.calls[i].call \in MutatingCalls =>
           \A j \in 1 .. (i - 1) : r.calls[j].call # r.calls[i].call
    /\ r.outcome.err = "RemoteError" =>
         /\ r.pc = "done"
         /\ r.outcome.kind = "error"
         /\ r.calls # <<>>
         /\ r.calls[Len(r.calls)].call = r.outcome.status
    /\ r.pc = "done" => r.outcome.kind \in {"returned", "error"}

C14_Witness ==
  \E p \in Procs :
    /\ inv[p].op = "destroy"
    /\ inv[p].pc = "done"
    /\ inv[p].outcome.err = "RemoteError"
    /\ inv[p].outcome.status = "deleteStack"
    /\ stack.status \notin {Absent, "DELETE_IN_PROGRESS", "DELETE_COMPLETE"}

\* C15: a deployStack of a stack that exists in a status of success, with the
\* template that is deployed, never changes the stack (status, template,
\* outputs), issues neither deleteStack nor executeChangeSet, deletes no
\* change set but its own, and ends by returning noOp = true with the outputs
\* of the stack, unless one of its calls fails.
C15_NoOpIdempotent ==
  \A p \in Procs :
    LET r == inv[p] IN
    (/\ r.op = "deploy"
     /\ r.env
     /\ r.toolkit \/ r.template <= 50 * 1024
     /\ r.stackAtStart.status \in {"CREATE_COMPLETE", "UPDATE_COMPLETE"}
     /\ r.stackAtStart.template = r.template) =>
      /\ stack = r.stackAtStart
      /\ ~Issued(r, "deleteStack")
      /\ ~Issued(r, "executeChangeSet")
      /\ \A i \in CallsOf(r, "deleteChangeSet") : r.calls[i].arg = r.executionId
      /\ r.pc = "done" =>
           \/ /\ r.outcome.kind = "returned"
              /\ r.outcome.noOp
              /\ r.outcome.outputs = r.template
              /\ Issued(r, "createChangeSet")
              /\ changeSets[r.executionId].status = "DELETED"
           \/ r.outcome.err = "RemoteError"

C15_Witness ==
  \E p \in Procs :
    /\ inv[p].op = "deploy"
    /\ inv[p].stackAtStart.status = "CREATE_COMPLETE"
    /\ inv[p].stackAtStart.template = inv[p].template
    /\ inv[p].outcome.kind = "returned"
    /\ inv[p].outcome.noOp
    /\ stack = inv[p].stackAtStart

\* C16: two invocations of deployStack on the same stack name, running at the
\* same time or one after the other, have different change set names; a
\* createChangeSet never names a change set that was created before; and the
\* deleteChangeSet and executeChangeSet calls of an invocation name the change
\* set it created, never the one of the other caller.
C16_UniqueChangeSetNames ==
  [][\A p \in DOMAIN inv :
       LET r == inv'[p] IN
       /\ \A q \in DOMAIN inv \ {p} :
            (r.executionId # Undefined /\ inv'[q].executionId # Undefined)
              => r.executionId # inv'[q].executionId
       /\ (/\ Len(r.calls) > Len(inv[p].calls)
           /\ r.calls[Len(r.calls)].call = "createChangeSet")
            => changeSets[r.calls[Len(r.calls)].arg].status = "NONE"
       /\ \A i \in CallsOf(r, "deleteChangeSet") \cup CallsOf(r, "executeChangeSet") :
            /\ r.calls[i].arg = r.request.ChangeSetName
            /\ r.request.ChangeSetName = r.executionId
            /\ \A q \in DOMAIN inv \ {p} : r.calls[i].arg # inv'[q].request.ChangeSetName]_vars

C16_Witness ==
  /\ DOMAIN inv = Callers
  /\ inv[1].request.ChangeSetType # "NONE"
  /\ inv[2].request.ChangeSetType # "NONE"
  /\ inv[1].request.ChangeSetName # inv[2].request.ChangeSetName
  /\ Issued(inv[1], "executeChangeSet")
  /\ Issued(inv[2], "executeChangeSet")
  /\ inv[1].pc = "waitForStack"

\* C17: without toolkit storage makeBodyParameter raises for every template
\* of more than 50,200 characters.
C17_RaisesAboveDocumentedSize ==
  \A p \in Procs :
    LET r == inv[p] IN
    (r.op = "deploy" /\ ~r.toolkit /\ r.template > DocLimitBytes /\ r.pc # "makeBodyParameter")
      => (r.pc = "done" /\ r.outcome.err = "TemplateTooLarge")

\* a description whose change list is there and has entries
HasChanges(d) == d.defined /\ d.hasChanges /\ d.n > 0

\* C18: when the awaited change set has a non-empty change list, deployStack
\* issues executeChangeSet exactly once, for the change set it created, and
\* never deleteChangeSet; it looks at the stack's status to wait for the end
\* of the deployment only after executeChangeSet has returned; and no
\* invocation issues both executeChangeSet and deleteChangeSet.
C18_NonEmptyIsExecuted ==
  \A p \in Procs :
    LET r == inv[p]
        described == FirstIndex(r, "describeChangeSet")
        executed == CallsOf(r, "executeChangeSet")
    IN r.op = "deploy" =>
         /\ \A i \in 1 .. Len(r.calls) :
              r.calls[i].call = "executeChangeSet" =>
                /\ r.calls[i].arg = r.request.ChangeSetName
                /\ ~Issued(r, "deleteChangeSet")
         /\ (r.described /\ HasChanges(r.changeSetDescription)) =>
              /\ ~Issued(r, "deleteChangeSet")
              /\ r.pc # "deleteChangeSet"
              /\ r.pc # "executeChangeSet" => Cardinality(executed) = 1
              /\ \A i \in CallsOf(r, "describeStacks") :
                   i > described => \E j \in executed : j < i
              /\ r.pc \in {"waitForStack", "monitorStop", "outputs"} =>
                   changeSets[r.request.ChangeSetName].status = "EXECUTED"

C18_Witness ==
  \E p \in Procs :
    /\ inv[p].op = "deploy"
    /\ inv[p].described
    /\ HasChanges(inv[p].changeSetDescription)
    /\ Cardinality(CallsOf(inv[p], "executeChangeSet")) = 1
    /\ inv[p].waited = "CREATE_COMPLETE"
    /\ inv[p].outcome.kind = "returned"
    /\ ~inv[p].outcome.noOp

\* C20: a deployStack invocation issues deleteStack only after it saw that
\* the stack failed creation, and the stack it is about to delete is in a
\* status of failed creation; when it saw no stack, or a stack in any other
\* status, it never issues deleteStack.
C20_DeleteOnlyAfterFailedCreation ==
  \A p \in Procs :
    LET r == inv[p] IN
    r.op = "deploy" =>
      /\ r.pc \in {"deleteStack", "waitForDeleted"} => r.failedCreating
      /\ r.pc = "deleteStack" => stack.status \in CreationFailureStatuses
      /\ ~r.failedCreating => ~Issued(r, "deleteStack")

C20_Witness ==
  \E p \in Procs :
    /\ inv[p].op = "deploy"
    /\ inv[p].stackAtStart.status = "ROLLBACK_COMPLETE"
    /\ inv[p].failedCreating
    /\ Issued(inv[p], "deleteStack")
    /\ inv[p].deletedStack \in {"undefined", "DELETE_COMPLETE"}
    /\ inv[p].pc = "createChangeSet"

\* C19: when every call returns and the control plane settles every change
\* set and every stack operation, each deployStack and destroyStack
\* invocation ends, by returning or by raising.
C19_InvocationsTerminate ==
  \A p \in Procs : (inv[p].pc \notin {"idle", "done"}) ~> (inv[p].pc = "done")

C19_Witness ==
  \E p \in Procs :
    /\ inv[p].op = "destroy"
    /\ inv[p].pc = "done"
    /\ inv[p].waited = "DELETE_FAILED"
    /\ inv[p].outcome.kind = "error"
    /\ stack.status = "DELETE_FAILED"
    /\ inv[p].stackAtStart.status = "UPDATE_COMPLETE"

\* the calls of the orchestrator in the order it issued them, those that
\* start and stop the monitor left out
OrchestratorCalls(r) ==
  SelectSeq(r.calls, LAMBDA c : c.call \notin {"monitor.start", "monitor.stop"})

\* C12 as claimed: of two runs with the same inputs, one with quiet = true and one
\* with quiet = false, that get the same responses from the control plane:
\* the one that is not quiet can make every step the quiet one makes, and
\* after as many steps it has issued the same calls in the same order, the
\* start and the stop of the monitor apart, it has ended if and only if the
\* quiet one has, with the same result or the same error, and the control
\* plane is in the same state.
C12_QuietChangesNothing ==
  /\ LoudTurn => ENABLED LoudAnswer
  /\ QuietTurn =>
       LET quiet == inv[1]
           loud == inv[Twin].other.r
       IN /\ OrchestratorCalls(loud) = OrchestratorCalls(quiet)
          /\ loud.outcome = quiet.outcome
          /\ (loud.pc = "done") = (quiet.pc = "done")
          /\ inv[Twin].other.stack = stack
          /\ inv[Twin].other.changeSets = changeSets
          /\ inv[Twin].other.bucket = bucket
          /\ quiet.pc # "idle" => quiet.quiet /\ ~loud.quiet /\ SameInputs(loud, quiet)

====
